---- MODULE Spec2Model ----
(***************************************************************************)
(* Model of app.py, the Bautagesbericht Flask application: the net-hours   *)
(* helpers (parse_time_to_minutes, to_float_nonneg, calc_netto_stunden),   *)
(* the users and reports tables, the session cookie of each browser, and   *)
(* the request handlers (login, logout, admin_users, index, list_reports,  *)
(* edit_report, delete_report) together with the init_db bootstrap that    *)
(* runs before every request.                                              *)
(*                                                                         *)
(* Representation.                                                         *)
(*  - A Python str is a sequence of one-character strings, so that strip,  *)
(*    split, replace, int() and float() are computed character by          *)
(*    character.  A missing form field (None) is the token NoneStr.        *)
(*  - A Python float / SQL REAL is a record [k, v]: k = "fin" with v the   *)
(*    value in hundredths, k = "nan", k = "inf" with v the sign; None and  *)
(*    SQL NULL are the record Null; a Python int is k = "int"; an          *)
(*    exception that leaves a function is k = "raise".                     *)
(***************************************************************************)
EXTENDS Integers, Sequences, FiniteSets, TLC

VARIABLES env, users, reports, report_seq, session, pc, loc, clock, last, call

vars == <<env, users, reports, report_seq, session, pc, loc, clock, last, call>>

---------------------------------------------------------------------------
(* Values *)

NoneStr == <<"None">>
Null == [k |-> "none", v |-> 0]
Raise == [k |-> "raise", v |-> 0]
NaN == [k |-> "nan", v |-> 0]
PosInf == [k |-> "inf", v |-> 1]
NegInf == [k |-> "inf", v |-> -1]
Fin(n) == [k |-> "fin", v |-> n]
IntV(n) == [k |-> "int", v |-> n]

Digits == <<"0", "1", "2", "3", "4", "5", "6", "7", "8", "9">>

IsDigit(c) == \E i \in 1..10 : Digits[i] = c

DigitVal(c) == (CHOOSE i \in 1..10 : Digits[i] = c) - 1

IsSpace(c) == c = " "

\* Python `x or ""` on a form value: None and "" both give "".
OrEmpty(x) == IF x = NoneStr THEN <<>> ELSE x

RECURSIVE lstrip(_)
lstrip(s) == IF s # <<>> /\ IsSpace(Head(s)) THEN lstrip(Tail(s)) ELSE s

RECURSIVE rstrip(_)
rstrip(s) ==
    IF s # <<>> /\ IsSpace(s[Len(s)]) THEN rstrip(SubSeq(s, 1, Len(s) - 1)) ELSE s

\* str.strip()
strip(s) == rstrip(lstrip(s))

\* `c in s`
Contains(s, c) == \E i \in 1..Len(s) : s[i] = c

\* str.replace(a, b) for one-character a and b
replace(s, a, b) == [i \in 1..Len(s) |-> IF s[i] = a THEN b ELSE s[i]]

RECURSIVE split(_, _)
\* str.split(sep) for a one-character sep: the list of parts
split(s, sep) ==
    IF ~Contains(s, sep) THEN <<s>>
    ELSE LET i == CHOOSE j \in 1..Len(s) :
                      s[j] = sep /\ \A m \in 1..(j - 1) : s[m] # sep
         IN <<SubSeq(s, 1, i - 1)>> \o split(SubSeq(s, i + 1, Len(s)), sep)

AllDigits(s) == \A i \in 1..Len(s) : IsDigit(s[i])

RECURSIVE DigitsVal(_)
DigitsVal(s) ==
    IF s = <<>> THEN 0
    ELSE 10 * DigitsVal(SubSeq(s, 1, Len(s) - 1)) + DigitVal(s[Len(s)])

\* int(str): surrounding whitespace and one sign are accepted; anything
\* else but a non-empty run of digits raises ValueError.
int(x) ==
    LET t == strip(x)
        signed == t # <<>> /\ (Head(t) = "-" \/ Head(t) = "+")
        body == IF signed THEN Tail(t) ELSE t
        sgn == IF signed /\ Head(t) = "-" THEN -1 ELSE 1
    IN IF body # <<>> /\ AllDigits(body) THEN IntV(sgn * DigitsVal(body)) ELSE Raise

\* The value, in hundredths, of the decimal digits ip "." fp.
Hundredths(ip, fp) ==
    LET f2 == SubSeq(fp \o <<"0", "0">>, 1, 2)
    IN 100 * DigitsVal(ip) + DigitsVal(f2)

\* float(str): surrounding whitespace and one sign are accepted; "nan",
\* "inf" and "infinity" are numbers; a decimal is digits with at most one
\* dot and at least one digit; anything else raises ValueError.  Exponents
\* are outside the alphabet of the inputs, and a fraction is read to the
\* model's resolution of two digits.
float(x) ==
    LET t == strip(x)
        signed == t # <<>> /\ (Head(t) = "-" \/ Head(t) = "+")
        body == IF signed THEN Tail(t) ELSE t
        sgn == IF signed /\ Head(t) = "-" THEN -1 ELSE 1
        parts == split(body, ".")
    IN IF body = <<"n", "a", "n">> THEN NaN
       ELSE IF body = <<"i", "n", "f">>
                 \/ body = <<"i", "n", "f", "i", "n", "i", "t", "y">>
            THEN [k |-> "inf", v |-> sgn]
       ELSE IF Len(parts) = 1 /\ body # <<>> /\ AllDigits(body)
            THEN Fin(sgn * Hundredths(body, <<>>))
       ELSE IF Len(parts) = 2 /\ AllDigits(parts[1]) /\ AllDigits(parts[2])
                 /\ parts[1] \o parts[2] # <<>>
            THEN Fin(sgn * Hundredths(parts[1], parts[2]))
       ELSE Raise

\* `n < 0` on a float: false for nan.
FLtZero(n) == (n.k = "fin" /\ n.v < 0) \/ (n.k = "inf" /\ n.v < 0)

---------------------------------------------------------------------------
(* Netto time helpers *)

parse_time_to_minutes_noexcept(hhmm) ==
    LET s == strip(OrEmpty(hhmm))
        parts == split(s, ":")
    IN IF s = <<>> \/ ~Contains(s, ":") THEN Null
       ELSE IF Len(parts) # 2 THEN Raise
       ELSE LET h == int(parts[1])
                m == int(parts[2])
            IN IF h = Raise \/ m = Raise THEN Raise
               ELSE IntV(h.v * 60 + m.v)

parse_time_to_minutes(hhmm) ==
    LET s == strip(OrEmpty(hhmm))
        parts == split(s, ":")
    IN IF s = <<>> \/ ~Contains(s, ":") THEN Null
       ELSE IF Len(parts) # 2 THEN Null
       ELSE LET h == int(parts[1])
                m == int(parts[2])
            IN IF h = Raise \/ m = Raise THEN Null
               ELSE IntV(h.v * 60 + m.v)

to_float_nonneg(val) ==
    LET s == replace(strip(OrEmpty(val)), ",", ".")
    IN IF s = <<>> THEN Fin(0)
       ELSE LET n == float(s)
            IN IF n = Raise THEN Fin(0)
               ELSE IF FLtZero(n) THEN Fin(0)
               ELSE n

\* round(x, 2) of x = n300/300 hours, in hundredths: the nearest hundredth.
\* A whole number of thirds is never half way between two hundredths.
round2(n300) ==
    LET q == n300 \div 3
        r == n300 % 3
    IN IF 2 * r > 3 THEN q + 1 ELSE q

\* `pause_stunden or 0.0`
OrZero(x) == IF x = Null \/ x = Fin(0) THEN Fin(0) ELSE x

calc_netto_stunden_nowrap(von, bis, pause_stunden) ==
    LET mv == parse_time_to_minutes(von)
        mb == parse_time_to_minutes(bis)
    IN IF mv = Raise \/ mb = Raise THEN Raise
       ELSE IF mv = Null \/ mb = Null THEN Null
       ELSE LET diff == mb.v - mv.v
                pause == OrZero(pause_stunden)
            IN IF pause.k = "nan" THEN NaN
               ELSE IF pause.k = "inf"
                    THEN (IF pause.v > 0 THEN Fin(0) ELSE PosInf)
               ELSE LET netto == 5 * diff - 3 * pause.v
                    IN IF netto < 0 THEN Fin(0) ELSE Fin(round2(netto))

\* netto is held in units of 1/300 hour, in which diff / 60.0 and a break
\* given in hundredths are both exact: netto = 5 * diff - 3 * pause.
calc_netto_stunden(von, bis, pause_stunden) ==
    LET mv == parse_time_to_minutes(von)
        mb == parse_time_to_minutes(bis)
    IN IF mv = Raise \/ mb = Raise THEN Raise
       ELSE IF mv = Null \/ mb = Null THEN Null
       ELSE LET diff0 == mb.v - mv.v
                diff == IF diff0 < 0 THEN diff0 + 24 * 60 ELSE diff0
                pause == OrZero(pause_stunden)
            IN IF pause.k = "nan" THEN NaN
               ELSE IF pause.k = "inf"
                    THEN (IF pause.v > 0 THEN Fin(0) ELSE PosInf)
               ELSE LET netto == 5 * diff - 3 * pause.v
                    IN IF netto < 0 THEN Fin(0) ELSE Fin(round2(netto))

---------------------------------------------------------------------------
(* Bounds and sample inputs *)

MaxUsers == 3
MaxReports == 2

Clients == {1, 2}

S_Admin == <<"A", "d", "m", "i", "n">>
S_Bob == <<"B", "o", "b">>
S_9 == <<"9">>
S_1 == <<"1">>
S_admin == <<"a", "d", "m", "i", "n">>
S_worker == <<"w", "o", "r", "k", "e", "r">>
S_boss == <<"b", "o", "s", "s">>
S_date == <<"0", "1", ".", "0", "2", ".", "2", "0", "2", "5">>
S_site == <<" ", "A", "1", " ">>
S_sun == <<"s", "u", "n">>
S_0800 == <<"0", "8", ":", "0", "0">>
S_1630 == <<"1", "6", ":", "3", "0">>
S_2200 == <<"2", "2", ":", "0", "0">>
S_0600 == <<"0", "6", ":", "0", "0">>
S_0900 == <<"0", "9", ":", "0", "0">>
S_2599 == <<"2", "5", ":", "9", "9">>
S_0c5 == <<"0", ",", "5">>
S_3c5 == <<"3", ",", "5">>
S_m2 == <<"-", "2">>
S_5 == <<"5">>
S_nan == <<"n", "a", "n">>
S_inf == <<"i", "n", "f">>
S_abc == <<"a", "b", "c">>

---------------------------------------------------------------------------
(* Environment, storage and session helpers *)

\* is_postgres(): DATABASE_URL is set
is_postgres == env.DATABASE_URL

\* werkzeug's generate_password_hash / check_password_hash: the hash
\* determines the PIN it was made from and is never the PIN itself.
generate_password_hash(pin) == <<"pbkdf2">> \o pin

check_password_hash(pwhash, pin) == pwhash = generate_password_hash(pin)

\* What a REAL column holds after the driver bound the Python value: the
\* sqlite3 driver binds a NaN as NULL, psycopg2 sends it as 'NaN'.
StoreReal(x) == IF ~is_postgres /\ x.k = "nan" THEN Null ELSE x

NoRow == [id |-> 0]

UserRows == {users[i] : i \in 1..Len(users)}

\* SELECT * FROM users WHERE name = ?
UsersByName(name) == {u \in UserRows : u.name = name}

ReportIds == {reports[i].id : i \in 1..Len(reports)}

ReportById(report_id) ==
    IF report_id \in ReportIds
    THEN reports[CHOOSE i \in 1..Len(reports) : reports[i].id = report_id]
    ELSE NoRow

\* current_user(): the users row of the session's user_id, if any
current_user(c) ==
    LET uid == session[c]
    IN IF uid = 0 \/ ~\E u \in UserRows : u.id = uid THEN NoRow
       ELSE CHOOSE u \in UserRows : u.id = uid

Response(status, flash, to) == [status |-> status, flash |-> flash, to |-> to]

LoginRedirect == Response("redirect", "", "login")
AdminDenied == Response("redirect", "Kein Zugriff (Admin benötigt).", "index")
InvalidCredentials == Response("redirect", "Falscher Name oder PIN.", "login")
MissingCredentials == Response("redirect", "Bitte Name und PIN eingeben.", "login")
MissingRequiredField(to) == Response("redirect", "Bitte Datum und Baustelle ausfüllen.", to)
ReportNotFound == Response("redirect", "Bericht nicht gefunden.", "list_reports")
ServerError == Response("error", "", "")

\* One completed step of a request: who, which handler, its input, its response.
Event(c, op, arg, resp) == [c |-> c, op |-> op, arg |-> arg, resp |-> resp]

NoLoc == [new_name |-> <<>>, pin_hash |-> <<>>, new_role |-> <<>>]
NoCall == [fn |-> "none", args |-> <<>>, done |-> TRUE, ret |-> Null]

Init ==
    /\ env \in {[DATABASE_URL |-> d, ADMIN_NAME |-> S_Admin, ADMIN_PIN |-> p] :
                    d \in BOOLEAN, p \in {S_9, <<>>}}
    /\ users = <<>>
    /\ reports = <<>>
    /\ report_seq = 0
    /\ session = [c \in Clients |-> 0]
    /\ pc = [c \in Clients |-> "idle"]
    /\ loc = [c \in Clients |-> NoLoc]
    /\ clock = 1
    /\ last = Event(0, "none", <<>>, Response("none", "", ""))
    /\ call = NoCall

---------------------------------------------------------------------------
(* init_db, run by before_request *)

\* init_db would insert the admin: ADMIN_PIN is set and no admin row exists
BootstrapNeeded == strip(env.ADMIN_PIN) # <<>> /\ {u \in UserRows : u.role = S_admin} = {}

\* before_request has run init_db for this request
InitDbDone(c) == pc[c] = "ready" \/ (pc[c] = "idle" /\ ~BootstrapNeeded)

UserRow(name, pin_hash, role) ==
    [id |-> Len(users) + 1, name |-> name, pin_hash |-> pin_hash,
     role |-> role, created_at |-> clock]

\* init_db up to and including the SELECT ... WHERE role = 'admin'
InitDbCheck(c) ==
    /\ pc[c] = "idle"
    /\ BootstrapNeeded
    /\ pc' = [pc EXCEPT ![c] = "init_insert"]
    /\ last' = Event(c, "init_db_check", <<>>, Response("none", "", ""))
    /\ UNCHANGED <<env, users, reports, report_seq, session, loc, clock, call>>

\* init_db's INSERT of the admin, after its own check found none
InitDbInsert(c) ==
    /\ pc[c] = "init_insert"
    /\ Len(users) < MaxUsers
    /\ users' = Append(users, UserRow(env.ADMIN_NAME,
                           generate_password_hash(strip(env.ADMIN_PIN)), S_admin))
    /\ clock' = clock + 1
    /\ pc' = [pc EXCEPT ![c] = "ready"]
    /\ last' = Event(c, "init_db_insert", <<>>, Response("none", "", ""))
    /\ UNCHANGED <<env, reports, report_seq, session, loc, call>>

\* The handler returned: the response goes out and the browser is idle again.
Return(c, op, arg, resp) ==
    /\ pc' = [pc EXCEPT ![c] = "idle"]
    /\ last' = Event(c, op, arg, resp)

---------------------------------------------------------------------------
(* login, logout *)

login_leaky(c, name_in, pin_in) ==
    /\ InitDbDone(c)
    /\ LET name == strip(OrEmpty(name_in))
           pin == strip(OrEmpty(pin_in))
           arg == [name |-> name_in, pin |-> pin_in]
       IN IF name = <<>> \/ pin = <<>>
          THEN /\ Return(c, "login", arg, MissingCredentials)
               /\ UNCHANGED session
          ELSE IF UsersByName(name) = {}
          THEN /\ Return(c, "login", arg,
                         Response("redirect", "Unbekannter Name.", "login"))
               /\ UNCHANGED session
          ELSE \E user \in UsersByName(name) :
                  IF ~check_password_hash(user.pin_hash, pin)
                  THEN /\ Return(c, "login", arg, InvalidCredentials)
                       /\ UNCHANGED session
                  ELSE /\ session' = [session EXCEPT ![c] = user.id]
                       /\ Return(c, "login", arg,
                                 Response("redirect", "Willkommen", "index"))
    /\ UNCHANGED <<env, users, reports, report_seq, loc, clock, call>>

\* POST /login.  fetchone() of a SELECT without ORDER BY returns any of the
\* rows with that name.
login(c, name_in, pin_in) ==
    /\ InitDbDone(c)
    /\ LET name == strip(OrEmpty(name_in))
           pin == strip(OrEmpty(pin_in))
           arg == [name |-> name_in, pin |-> pin_in]
       IN IF name = <<>> \/ pin = <<>>
          THEN /\ Return(c, "login", arg, MissingCredentials)
               /\ UNCHANGED session
          ELSE IF UsersByName(name) = {}
          THEN /\ Return(c, "login", arg, InvalidCredentials)
               /\ UNCHANGED session
          ELSE \E user \in UsersByName(name) :
                  IF ~check_password_hash(user.pin_hash, pin)
                  THEN /\ Return(c, "login", arg, InvalidCredentials)
                       /\ UNCHANGED session
                  ELSE /\ session' = [session EXCEPT ![c] = user.id]
                       /\ Return(c, "login", arg,
                                 Response("redirect", "Willkommen", "index"))
    /\ UNCHANGED <<env, users, reports, report_seq, loc, clock, call>>

\* GET /logout: session.clear()
logout(c) ==
    /\ InitDbDone(c)
    /\ session' = [session EXCEPT ![c] = 0]
    /\ Return(c, "logout", <<>>, Response("redirect", "Abgemeldet.", "login"))
    /\ UNCHANGED <<env, users, reports, report_seq, loc, clock, call>>

\* login_required: the session holds a user_id
login_required(c) == session[c] # 0

\* admin_required: current_user() exists and has role admin
admin_required(c) == current_user(c) # NoRow /\ current_user(c).role = S_admin

\* GET /list (and the other pages that only read)
list_reports(c) ==
    /\ InitDbDone(c)
    /\ IF ~login_required(c)
       THEN Return(c, "list_reports", <<>>, LoginRedirect)
       ELSE Return(c, "list_reports", <<>>, Response("render", "", "list.html"))
    /\ UNCHANGED <<env, users, reports, report_seq, session, loc, clock, call>>

---------------------------------------------------------------------------
(* Admin: manage users *)

\* admin_users POST up to and including the SELECT id ... WHERE name = ?
admin_users_check(c, form) ==
    /\ InitDbDone(c)
    /\ LET new_name == strip(OrEmpty(form.new_name))
           new_pin == strip(OrEmpty(form.new_pin))
           new_role == strip(IF OrEmpty(form.new_role) = <<>> THEN S_worker
                             ELSE form.new_role)
       IN IF ~login_required(c)
          THEN Return(c, "admin_users", form, LoginRedirect) /\ UNCHANGED loc
          ELSE IF ~admin_required(c)
          THEN Return(c, "admin_users", form, AdminDenied) /\ UNCHANGED loc
          ELSE IF new_name = <<>> \/ new_pin = <<>>
          THEN /\ Return(c, "admin_users", form,
                         Response("redirect", "Name und PIN sind Pflicht.", "admin_users"))
               /\ UNCHANGED loc
          ELSE IF UsersByName(new_name) # {}
          THEN /\ Return(c, "admin_users", form,
                         Response("redirect", "Dieser Name existiert bereits.", "admin_users"))
               /\ UNCHANGED loc
          ELSE /\ pc' = [pc EXCEPT ![c] = "au_insert"]
               /\ loc' = [loc EXCEPT ![c] = [new_name |-> new_name,
                              pin_hash |-> generate_password_hash(new_pin),
                              new_role |-> new_role]]
               /\ last' = Event(c, "admin_users_check", form, Response("none", "", ""))
    /\ UNCHANGED <<env, users, reports, report_seq, session, clock, call>>

\* admin_users POST from the INSERT INTO users on
admin_users_insert(c) ==
    /\ pc[c] = "au_insert"
    /\ Len(users) < MaxUsers
    /\ users' = Append(users, UserRow(loc[c].new_name, loc[c].pin_hash, loc[c].new_role))
    /\ clock' = clock + 1
    /\ loc' = [loc EXCEPT ![c] = NoLoc]
    /\ Return(c, "admin_users", <<>>,
              Response("redirect", "Benutzer erstellt.", "admin_users"))
    /\ UNCHANGED <<env, reports, report_seq, session, call>>

---------------------------------------------------------------------------
(* Reports.  Of the form's text fields wetter stands for team, the *_name  *)
(* fields, arbeit, material and bemerkung, and of its hours fields         *)
(* polier_stunden stands for the other *_stunden fields: the handlers      *)
(* treat each of them the same way.                                        *)

\* The locals index and edit_report compute from request.form
form_values(form) ==
    LET arbeitszeit_von == strip(OrEmpty(form.arbeitszeit_von))
        arbeitszeit_bis == strip(OrEmpty(form.arbeitszeit_bis))
        pause_stunden == to_float_nonneg(form.pause_stunden)
    IN [datum |-> strip(OrEmpty(form.datum)),
        arbeitszeit_von |-> arbeitszeit_von,
        arbeitszeit_bis |-> arbeitszeit_bis,
        pause_stunden |-> pause_stunden,
        netto_stunden |-> calc_netto_stunden(arbeitszeit_von, arbeitszeit_bis,
                                             pause_stunden),
        wetter |-> strip(OrEmpty(form.wetter)),
        baustelle |-> strip(OrEmpty(form.baustelle)),
        polier_stunden |-> to_float_nonneg(form.polier_stunden)]

RequiredMissing_and(datum, baustelle) == datum = <<>> /\ baustelle = <<>>

RequiredMissing_datum(datum, baustelle) == datum = <<>>

\* `not datum or not baustelle`
RequiredMissing(datum, baustelle) == datum = <<>> \/ baustelle = <<>>

\* The row INSERT INTO reports stores
ReportRow(me, v) ==
    [id |-> report_seq + 1, created_at |-> clock, created_by |-> me.id,
     datum |-> v.datum,
     arbeitszeit_von |-> v.arbeitszeit_von,
     arbeitszeit_bis |-> v.arbeitszeit_bis,
     pause_stunden |-> StoreReal(v.pause_stunden),
     netto_stunden |-> StoreReal(v.netto_stunden),
     wetter |-> v.wetter,
     baustelle |-> v.baustelle,
     polier_stunden |-> StoreReal(v.polier_stunden)]

\* POST / (create report).  On the Postgres branch the parameter tuple
\* names lkw_fahrer_name, which index never assigns: NameError.  An
\* exception out of calc_netto_stunden would leave the handler as well.
index(c, form) ==
    /\ InitDbDone(c)
    /\ LET me == current_user(c)
           v == form_values(form)
       IN IF ~login_required(c)
          THEN Return(c, "index", form, LoginRedirect)
               /\ UNCHANGED <<reports, report_seq, clock>>
          ELSE IF v.netto_stunden = Raise
          THEN Return(c, "index", form, ServerError)
               /\ UNCHANGED <<reports, report_seq, clock>>
          ELSE IF RequiredMissing(v.datum, v.baustelle)
          THEN Return(c, "index", form, MissingRequiredField("index"))
               /\ UNCHANGED <<reports, report_seq, clock>>
          ELSE IF is_postgres \/ me = NoRow
          THEN Return(c, "index", form, ServerError)
               /\ UNCHANGED <<reports, report_seq, clock>>
          ELSE /\ report_seq < MaxReports
               /\ reports' = Append(reports, ReportRow(me, v))
               /\ report_seq' = report_seq + 1
               /\ clock' = clock + 1
               /\ Return(c, "index", form,
                         Response("redirect", "Bautagesbericht wurde gespeichert.",
                                  "list_reports"))
    /\ UNCHANGED <<env, users, session, loc, call>>

UpdatedRow_stale(r, v) ==
    [r EXCEPT !.datum = v.datum,
              !.arbeitszeit_von = v.arbeitszeit_von,
              !.arbeitszeit_bis = v.arbeitszeit_bis,
              !.pause_stunden = StoreReal(v.pause_stunden),
              !.wetter = v.wetter,
              !.baustelle = v.baustelle,
              !.polier_stunden = StoreReal(v.polier_stunden)]

UpdatedRow_touch(r, v) ==
    [r EXCEPT !.created_at = clock,
              !.datum = v.datum,
              !.arbeitszeit_von = v.arbeitszeit_von,
              !.arbeitszeit_bis = v.arbeitszeit_bis,
              !.pause_stunden = StoreReal(v.pause_stunden),
              !.netto_stunden = StoreReal(v.netto_stunden),
              !.wetter = v.wetter,
              !.baustelle = v.baustelle,
              !.polier_stunden = StoreReal(v.polier_stunden)]

\* The row UPDATE reports SET ... WHERE id = report_id leaves in place of r
UpdatedRow(r, v) ==
    [r EXCEPT !.datum = v.datum,
              !.arbeitszeit_von = v.arbeitszeit_von,
              !.arbeitszeit_bis = v.arbeitszeit_bis,
              !.pause_stunden = StoreReal(v.pause_stunden),
              !.netto_stunden = StoreReal(v.netto_stunden),
              !.wetter = v.wetter,
              !.baustelle = v.baustelle,
              !.polier_stunden = StoreReal(v.polier_stunden)]

\* POST /edit/<report_id>
edit_report(c, report_id, form) ==
    /\ InitDbDone(c)
    /\ LET report == ReportById(report_id)
           v == form_values(form)
           arg == [report_id |-> report_id, form |-> form]
       IN IF ~login_required(c)
          THEN Return(c, "edit_report", arg, LoginRedirect) /\ UNCHANGED reports
          ELSE IF report = NoRow
          THEN Return(c, "edit_report", arg, ReportNotFound) /\ UNCHANGED reports
          ELSE IF v.netto_stunden = Raise
          THEN Return(c, "edit_report", arg, ServerError) /\ UNCHANGED reports
          ELSE IF RequiredMissing(v.datum, v.baustelle)
          THEN Return(c, "edit_report", arg, MissingRequiredField("edit_report"))
               /\ UNCHANGED reports
          ELSE /\ reports' = [i \in 1..Len(reports) |->
                                 IF reports[i].id = report_id
                                 THEN UpdatedRow(reports[i], v) ELSE reports[i]]
               /\ Return(c, "edit_report", arg,
                         Response("redirect", "Bericht wurde aktualisiert.",
                                  "report_detail"))
    /\ UNCHANGED <<env, users, report_seq, session, loc, clock, call>>

RECURSIVE SelectSeq_(_, _)
SelectSeq_(s, keep) ==
    IF s = <<>> THEN <<>>
    ELSE (IF Head(s).id \in keep THEN <<Head(s)>> ELSE <<>>) \o SelectSeq_(Tail(s), keep)

delete_report_noadmin(c, report_id) ==
    /\ InitDbDone(c)
    /\ IF ~login_required(c)
       THEN Return(c, "delete_report", report_id, LoginRedirect) /\ UNCHANGED reports
       ELSE /\ reports' = SelectSeq_(reports, ReportIds \ {report_id})
            /\ Return(c, "delete_report", report_id,
                      Response("redirect", "Bericht wurde gelöscht.", "list_reports"))
    /\ UNCHANGED <<env, users, report_seq, session, loc, clock, call>>

\* POST /delete/<report_id>
delete_report(c, report_id) ==
    /\ InitDbDone(c)
    /\ IF ~login_required(c)
       THEN Return(c, "delete_report", report_id, LoginRedirect) /\ UNCHANGED reports
       ELSE IF ~admin_required(c)
       THEN Return(c, "delete_report", report_id, AdminDenied) /\ UNCHANGED reports
       ELSE /\ reports' = SelectSeq_(reports, ReportIds \ {report_id})
            /\ Return(c, "delete_report", report_id,
                      Response("redirect", "Bericht wurde gelöscht.", "list_reports"))
    /\ UNCHANGED <<env, users, report_seq, session, loc, clock, call>>

---------------------------------------------------------------------------
(* Requests the browsers send *)

LoginForm(name, pin) == [name |-> name, pin |-> pin]

LoginForms ==
    {LoginForm(S_Admin, S_9), LoginForm(S_Admin, S_1), LoginForm(S_Bob, S_1),
     LoginForm(S_Bob, S_9), LoginForm(NoneStr, S_9)}

UserForm(name, pin, role) == [new_name |-> name, new_pin |-> pin, new_role |-> role]

UserForms ==
    {UserForm(S_Bob, S_1, NoneStr), UserForm(S_Bob, S_1, S_boss),
     UserForm(S_Admin, S_1, S_admin), UserForm(<<" ">>, S_1, NoneStr),
     UserForm(S_Bob, S_1, <<" ">>)}

ReportForm(datum, von, bis, pause, wetter, baustelle, polier) ==
    [datum |-> datum, arbeitszeit_von |-> von, arbeitszeit_bis |-> bis,
     pause_stunden |-> pause, wetter |-> wetter, baustelle |-> baustelle,
     polier_stunden |-> polier]

F_day == ReportForm(S_date, S_0800, S_1630, S_0c5, S_sun, S_site, S_3c5)
F_blank == ReportForm(S_date, <<>>, NoneStr, <<>>, NoneStr, S_site, NoneStr)
F_night == ReportForm(S_date, S_2200, S_0600, S_nan, S_sun, S_site, S_m2)
F_range == ReportForm(S_date, S_0900, S_2599, S_5, <<>>, S_site, S_abc)
F_over == ReportForm(S_date, S_0800, S_0900, S_5, <<>>, S_site, S_inf)
F_nodate == ReportForm(<<" ", " ">>, S_0800, S_1630, S_0c5, S_sun, S_site, S_3c5)
F_nosite == ReportForm(S_date, S_0800, S_1630, <<>>, <<>>, NoneStr, <<>>)

ReportForms == {F_day, F_blank, F_night, F_range, F_over, F_nodate, F_nosite}

\* Report ids a request may name: every id ever assigned, and one never assigned
RequestIds == 1..(MaxReports + 1)

\* One browser, every handler, two report forms.
Next ==
    \/ InitDbCheck(1)
    \/ InitDbInsert(1)
    \/ \E f \in LoginForms : login(1, f.name, f.pin)
    \/ logout(1)
    \/ list_reports(1)
    \/ \E f \in UserForms : admin_users_check(1, f)
    \/ admin_users_insert(1)
    \/ \E f \in {F_day, F_nodate} : index(1, f)
    \/ \E id \in RequestIds, f \in {F_day, F_nodate} : edit_report(1, id, f)
    \/ \E id \in RequestIds : delete_report(1, id)

Spec == Init /\ [][Next]_vars

\* One browser, the report handlers, every report form.
NextReports ==
    \/ InitDbCheck(1)
    \/ InitDbInsert(1)
    \/ login(1, S_Admin, S_9)
    \/ logout(1)
    \/ \E f \in ReportForms : index(1, f)
    \/ \E id \in RequestIds, f \in ReportForms : edit_report(1, id, f)
    \/ \E id \in RequestIds : delete_report(1, id)

SpecReports == Init /\ [][NextReports]_vars

\* Two browsers whose requests interleave; the handlers that write users.
NextUsers ==
    \/ \E c \in Clients : InitDbCheck(c)
    \/ \E c \in Clients : InitDbInsert(c)
    \/ \E c \in Clients : login(c, S_Admin, S_9)
    \/ \E c \in Clients : logout(c)
    \/ \E c \in Clients, f \in {UserForm(S_Bob, S_1, NoneStr), UserForm(S_Admin, S_1, S_admin)} :
          admin_users_check(c, f)
    \/ \E c \in Clients : admin_users_insert(c)

SpecUsers == Init /\ [][NextUsers]_vars

---------------------------------------------------------------------------
(* The helpers on their own: one call of one helper on sampled arguments *)

Fmt2(n) == <<Digits[(n \div 10) + 1], Digits[(n % 10) + 1]>>

\* "HH:MM"
TimeStr(h, m) == Fmt2(h) \o <<":">> \o Fmt2(m)

ClockTimes == {TimeStr(h, m) : h \in {0, 6, 8, 9, 16, 22, 23}, m \in {0, 30, 59}}

\* Two digits each, outside the clock range
RangeTimes == {S_2599, TimeStr(24, 0), TimeStr(99, 99)}

\* Accepted though not HH:MM
LooseTimes == {<<" ", "8", ":", "5", " ">>, <<"-", "1", ":", "0", "0">>,
               <<"8", ":", " ", "+", "3", "0">>, <<"-", "3", "0", ":", "0", "0">>}

NoColonTimes == {S_abc, <<"8">>, <<"0", "8", "0", "0">>, <<"0", "8", ".", "0", "0">>}

NotIntegerTimes == {<<"a", ":", "b">>, <<"8", ":">>, <<":">>, <<":", "3", "0">>,
                    <<"1", ":", "2", ":", "3">>, <<"8", ":", "3", "x">>,
                    <<"8", " ", "0", ":", "0", "0">>, <<"-", ":", "1">>}

EmptyTimes == {<<>>, <<" ">>, NoneStr}

TimeInputs ==
    ClockTimes \cup RangeTimes \cup LooseTimes \cup NoColonTimes
        \cup NotIntegerTimes \cup EmptyTimes

Breaks == {Null, Fin(0), Fin(25), Fin(50), Fin(500), PosInf, NaN}

FloatInputs ==
    {S_3c5, S_m2, <<>>, NoneStr, S_abc, S_0c5, S_5, S_nan, S_inf,
     <<"-", "i", "n", "f">>, <<" ", "2", " ">>, <<"1", ",", "2", ",", "3">>,
     <<"0", ".", "2", "5">>, <<"-", "0">>, <<"+", "1">>, <<".">>, <<".", "5">>,
     <<"5", ".">>, <<"-", "0", ",", "0", "1">>, <<"1", "2", "a">>, <<" ">>}

Call(fn, args) == [fn |-> fn, args |-> args, done |-> FALSE, ret |-> Null]

InitFn ==
    /\ env = [DATABASE_URL |-> FALSE, ADMIN_NAME |-> S_Admin, ADMIN_PIN |-> S_9]
    /\ users = <<>>
    /\ reports = <<>>
    /\ report_seq = 0
    /\ session = [c \in Clients |-> 0]
    /\ pc = [c \in Clients |-> "idle"]
    /\ loc = [c \in Clients |-> NoLoc]
    /\ clock = 1
    /\ last = Event(0, "none", <<>>, Response("none", "", ""))
    /\ call \in {Call("parse_time_to_minutes", <<t>>) : t \in TimeInputs}
            \cup {Call("to_float_nonneg", <<x>>) : x \in FloatInputs}
            \cup {Call("calc_netto_stunden", <<a, b, p>>) :
                      a \in TimeInputs, b \in TimeInputs, p \in Breaks}

Returns(fn, ret) ==
    /\ call.fn = fn
    /\ ~call.done
    /\ call' = [call EXCEPT !.done = TRUE, !.ret = ret]
    /\ UNCHANGED <<env, users, reports, report_seq, session, pc, loc, clock, last>>

CallParse == Returns("parse_time_to_minutes", parse_time_to_minutes(call.args[1]))

CallToFloat == Returns("to_float_nonneg", to_float_nonneg(call.args[1]))

CallCalc ==
    Returns("calc_netto_stunden",
            calc_netto_stunden(call.args[1], call.args[2], call.args[3]))

NextFn == CallParse \/ CallToFloat \/ CallCalc

SpecFn == InitFn /\ [][NextFn]_vars

---------------------------------------------------------------------------
(* Properties *)

Returned(fn) == call.fn = fn /\ call.done

\* Minutes since midnight of a string of the shape HH:MM, read off its digits
MinutesOfHHMM(s) ==
    60 * (10 * DigitVal(s[1]) + DigitVal(s[2])) + 10 * DigitVal(s[4]) + DigitVal(s[5])

\* C2: for start and end times of the form HH:MM and a non-negative break,
\* calc_netto_stunden returns max(0, d/60 - break) rounded to two decimals,
\* where d = end - start, plus 1440 when end < start; 08:00-16:30 with break
\* 0.5 gives 8.0 and 22:00-06:00 with break 0 gives 8.0.
C2_NetHours ==
    (Returned("calc_netto_stunden")
        /\ call.args[1] \in ClockTimes \cup RangeTimes
        /\ call.args[2] \in ClockTimes \cup RangeTimes
        /\ call.args[3] \in {Fin(0), Fin(25), Fin(50), Fin(500), PosInf})
    => LET start == MinutesOfHHMM(call.args[1])
           end == MinutesOfHHMM(call.args[2])
           d == IF end >= start THEN end - start ELSE end - start + 1440
           brk == call.args[3]
           \* max(0, d/60 - break) in units of 1/300 hour
           x == IF brk = PosInf \/ 5 * d - 3 * brk.v < 0 THEN 0 ELSE 5 * d - 3 * brk.v
       IN /\ call.ret.k = "fin"
          /\ call.ret.v >= 0
          \* within half a hundredth of x/300 hours
          /\ 2 * (3 * call.ret.v - x) <= 3
          /\ 2 * (x - 3 * call.ret.v) <= 3
          /\ (call.args = <<S_0800, S_1630, Fin(50)>> => call.ret = Fin(800))
          /\ (call.args = <<S_2200, S_0600, Fin(0)>> => call.ret = Fin(800))

\* A shift crossing midnight has been computed.
C2_Witness ==
    Returned("calc_netto_stunden") /\ call.args = <<S_2200, S_0600, Fin(0)>>
        /\ call.ret = Fin(800)

MalformedTimes == NoColonTimes \cup NotIntegerTimes \cup EmptyTimes

\* C4 as stated: calc_netto_stunden returns null, without raising, whenever
\* the start or the end time is malformed, "25:99" counting as malformed.
C4_Original ==
    (Returned("calc_netto_stunden")
        /\ (call.args[1] \in MalformedTimes \cup {S_2599}
              \/ call.args[2] \in MalformedTimes \cup {S_2599}))
    => call.ret = Null

\* C4: calc_netto_stunden returns null, without raising, whenever the start
\* or the end time has no colon, has parts that are not both integers, or
\* is empty; "25:99" is not such a time: it is read as 25 * 60 + 99 minutes
\* and, when the other time parses too, the result is a number.
C4_MalformedGivesNull ==
    /\ (Returned("calc_netto_stunden")
          /\ (call.args[1] \in MalformedTimes \/ call.args[2] \in MalformedTimes))
       => call.ret = Null
    /\ (Returned("parse_time_to_minutes") /\ call.args[1] \in MalformedTimes)
       => call.ret = Null
    /\ (Returned("parse_time_to_minutes") /\ call.args[1] = S_2599)
       => call.ret = IntV(1599)
    /\ (Returned("calc_netto_stunden") /\ call.args = <<TimeStr(0, 0), S_2599, Fin(0)>>)
       => call.ret = Fin(2665)

\* A malformed start time has given null.
C4_Witness ==
    Returned("calc_netto_stunden") /\ call.args[1] = <<"a", ":", "b">>
        /\ call.args[2] = S_1630 /\ call.ret = Null

\* C5 as stated: to_float_nonneg returns a non-negative number and never
\* raises; "3,5" gives 3.5, an empty, unparsable or negative input gives
\* 0.0, and a parsable non-negative input is returned unchanged.
C5_NonNegative ==
    Returned("to_float_nonneg")
    => /\ \/ call.ret.k = "fin" /\ call.ret.v >= 0
          \/ call.ret = PosInf
       /\ (call.args[1] = S_3c5 => call.ret = Fin(350))
       /\ (call.args[1] \in {S_m2, <<>>, NoneStr, S_abc} => call.ret = Fin(0))

ReportRows == {reports[i] : i \in 1..Len(reports)}

\* C1: every stored report has a date (datum) and a site identifier
\* (baustelle) that are non-empty after trimming.
C1_RequiredFieldsStored ==
    \A r \in ReportRows : strip(r.datum) # <<>> /\ strip(r.baustelle) # <<>>

\* A report was created and then edited; its site was submitted with padding.
C1_Witness ==
    /\ last.op = "edit_report"
    /\ last.resp.flash = "Bericht wurde aktualisiert."
    /\ \E r \in ReportRows : r.baustelle = <<"A", "1">>

\* C3: the net hours stored in every report are null or a non-negative
\* number, and equal calc_netto_stunden of that report's stored start time,
\* end time and break, also when an hour or minute part is outside the
\* clock range.
C3_NettoFromStoredTimes ==
    \A r \in ReportRows :
        \/ r.netto_stunden = Null
        \/ /\ r.netto_stunden.k = "fin"
           /\ r.netto_stunden.v >= 0
           /\ r.netto_stunden = calc_netto_stunden(r.arbeitszeit_von, r.arbeitszeit_bis,
                                                   r.pause_stunden)

\* An edit replaced the times of a report by 09:00-25:99 with a break of 5:
\* 1059 minutes less 5 hours are 12.65 hours.
C3_Witness ==
    /\ last.op = "edit_report"
    /\ last.arg.form = F_range
    /\ \E r \in ReportRows :
          r.id = last.arg.report_id /\ r.arbeitszeit_bis = S_2599
              /\ r.netto_stunden = Fin(1265)

\* The date or the site of a submitted form is empty after trimming.
LacksRequired(form) ==
    strip(OrEmpty(form.datum)) = <<>> \/ strip(OrEmpty(form.baustelle)) = <<>>

\* C6: a create-report or edit-report submission whose date or site is empty
\* after trimming leaves the stored reports unchanged; when it reaches the
\* handler's validation (the session holds a user id and, on edit, the
\* report exists) its outcome is MissingRequiredField.
C6_RejectedKeepsReports ==
    [][/\ (last'.op = "index" /\ LacksRequired(last'.arg))
          => /\ reports' = reports /\ report_seq' = report_seq
             /\ (session[last'.c] # 0 => last'.resp = MissingRequiredField("index"))
       /\ (last'.op = "edit_report" /\ LacksRequired(last'.arg.form))
          => /\ reports' = reports /\ report_seq' = report_seq
             /\ (session[last'.c] # 0 /\ last'.arg.report_id \in ReportIds
                   => last'.resp = MissingRequiredField("edit_report"))]_vars

\* An edit of an existing report was rejected for a missing site.
C6_Witness ==
    /\ last.op = "edit_report"
    /\ last.arg.form = F_nosite
    /\ last.resp = MissingRequiredField("edit_report")
    /\ last.arg.report_id \in ReportIds

\* Every field but date and site is blank.
OthersBlank(form) ==
    /\ ~LacksRequired(form)
    /\ \A x \in {form.arbeitszeit_von, form.arbeitszeit_bis, form.pause_stunden,
                 form.wetter, form.polier_stunden} : strip(OrEmpty(x)) = <<>>

\* C7 as stated: a create-report submission by a logged-in user with date
\* and site and every other field blank is accepted on either storage
\* branch: a success outcome, exactly one new report, whose author is the
\* session's user, and no exception escapes.
C7_BlankAccepted ==
    [][(last'.op = "index" /\ OthersBlank(last'.arg) /\ session[last'.c] # 0)
       => /\ last'.resp = Response("redirect", "Bautagesbericht wurde gespeichert.",
                                   "list_reports")
          /\ Len(reports') = Len(reports) + 1
          /\ SubSeq(reports', 1, Len(reports)) = reports
          /\ reports'[Len(reports')].created_by = session[last'.c]]_vars

\* C8: a login attempt with non-empty name and PIN that names no user and
\* one that names a user with a wrong PIN get the same single outcome,
\* InvalidCredentials (same message, same redirect), and both leave the
\* session unchanged.
C8_GenericLoginFailure ==
    [][(last'.op = "login"
          /\ strip(OrEmpty(last'.arg.name)) # <<>>
          /\ strip(OrEmpty(last'.arg.pin)) # <<>>)
       => LET name == strip(OrEmpty(last'.arg.name))
              pin == strip(OrEmpty(last'.arg.pin))
              unknown == UsersByName(name) = {}
              wrong_pin == /\ UsersByName(name) # {}
                           /\ \A u \in UsersByName(name) :
                                 u.pin_hash # generate_password_hash(pin)
          IN (unknown \/ wrong_pin)
                => last'.resp = InvalidCredentials /\ session' = session]_vars

\* A logged-in browser tried the name of an existing user with a wrong PIN.
C8_Witness ==
    /\ last.op = "login"
    /\ last.arg = LoginForm(S_Bob, S_9)
    /\ UsersByName(S_Bob) # {}
    /\ last.resp = InvalidCredentials
    /\ session[last.c] # 0

\* The step deletes a report / adds a user / adds or rewrites a report.
DeletesReport == ReportIds \ ReportIds' # {}
AddsUser == Len(users') > Len(users)
WritesReport == reports' # reports /\ ~DeletesReport

\* The session of the request that took the step holds the id of a user row.
ActorLoggedIn == session[last'.c] # 0 /\ current_user(last'.c) # NoRow
ActorIsAdmin == ActorLoggedIn /\ current_user(last'.c).role = S_admin

\* The step is a login that found a row with the submitted name and PIN.
SuccessfulLogin ==
    /\ last'.op = "login"
    /\ \E u \in UserRows :
          /\ u.name = strip(OrEmpty(last'.arg.name))
          /\ u.pin_hash = generate_password_hash(strip(OrEmpty(last'.arg.pin)))
          /\ session'[last'.c] = u.id

\* C9 as stated: a report is deleted and a user is created only by a
\* request whose session belongs to an existing admin; a report is created
\* or updated only by a request whose session holds a user id; right after
\* a logout nothing changes unless a login succeeds; no user is deleted.
C9_Original ==
    [][/\ DeletesReport => ActorIsAdmin
       /\ AddsUser => ActorIsAdmin
       /\ WritesReport => ActorLoggedIn
       /\ (last.op = "logout" /\ ~SuccessfulLogin)
             => reports' = reports /\ users' = users
       /\ SubSeq(users', 1, Len(users)) = users]_vars

\* C9: a report is deleted only by a request whose session belongs to an
\* existing admin; a user is created only by such a request, or by the
\* init_db bootstrap, which inserts the configured admin when ADMIN_PIN is
\* set and its check found no admin; a report is created or updated only by
\* a request whose session holds a user id, and a session gets a user id
\* only from a successful login; a logout clears the session and leaves an
\* admin in place, so that from then to the next successful login no report
\* and no user changes; no request deletes or rewrites a user.
C9_Authorized ==
    /\ [][/\ DeletesReport => (last'.op = "delete_report" /\ ActorIsAdmin)
          /\ AddsUser =>
                \/ last'.op = "admin_users" /\ ActorIsAdmin
                \/ /\ last'.op = "init_db_insert"
                   /\ strip(env.ADMIN_PIN) # <<>>
                   /\ users'[Len(users')].name = env.ADMIN_NAME
                   /\ users'[Len(users')].role = S_admin
          /\ WritesReport => (last'.op \in {"index", "edit_report"} /\ ActorLoggedIn)
          /\ (session'[last'.c] # session[last'.c] /\ session'[last'.c] # 0)
                => SuccessfulLogin
          /\ last'.op = "logout" => session'[last'.c] = 0
          /\ (session[last'.c] = 0 /\ ~BootstrapNeeded /\ ~SuccessfulLogin)
                => reports' = reports /\ users' = users /\ session'[last'.c] = 0
          /\ ~BootstrapNeeded => ~BootstrapNeeded'
          /\ SubSeq(users', 1, Len(users)) = users]_vars
    /\ [](last.op = "logout" => ~BootstrapNeeded)

\* An admin deleted the only report after a second user had been created.
C9_Witness ==
    /\ last.op = "delete_report"
    /\ last.resp.flash = "Bericht wurde gelöscht."
    /\ Len(users) >= 2
    /\ reports = <<>>
    /\ report_seq >= 1

\* C10 as stated: no two stored users have the same name.
C10_NamesUnique ==
    \A i, j \in 1..Len(users) : i # j => users[i].name # users[j].name

\* C11 as stated: every stored user's role is exactly admin or worker,
\* whatever the create-user form submits in new_role.
C11_RolesValid ==
    \A u \in UserRows : u.role \in {S_admin, S_worker}

\* The step is an edit-report request that was accepted.
AcceptedEdit ==
    /\ last'.op = "edit_report"
    /\ last'.resp = Response("redirect", "Bericht wurde aktualisiert.", "report_detail")

\* C12: an accepted edit-report request overwrites only the mutable fields
\* of the report with the given id: that report keeps its id, its author
\* (created_by) and its creation timestamp and takes the submitted values in
\* its other columns; every other report and every user is unchanged.
C12_EditFrame ==
    [][AcceptedEdit
       => /\ users' = users
          /\ report_seq' = report_seq
          /\ Len(reports') = Len(reports)
          /\ last'.arg.report_id \in ReportIds
          /\ \A i \in 1..Len(reports) :
                IF reports[i].id # last'.arg.report_id
                THEN reports'[i] = reports[i]
                ELSE /\ reports'[i].id = reports[i].id
                     /\ reports'[i].created_by = reports[i].created_by
                     /\ reports'[i].created_at = reports[i].created_at
                     /\ reports'[i].datum = strip(OrEmpty(last'.arg.form.datum))
                     /\ reports'[i].baustelle = strip(OrEmpty(last'.arg.form.baustelle))
                     /\ reports'[i].wetter = strip(OrEmpty(last'.arg.form.wetter))
                     /\ reports'[i].arbeitszeit_von
                           = strip(OrEmpty(last'.arg.form.arbeitszeit_von))
                     /\ reports'[i].arbeitszeit_bis
                           = strip(OrEmpty(last'.arg.form.arbeitszeit_bis))]_vars

\* The first of two reports was edited after the second had been created:
\* it has new times and site values but its creation time of before.
C12_Witness ==
    /\ last.op = "edit_report"
    /\ last.resp.flash = "Bericht wurde aktualisiert."
    /\ last.arg.report_id = 1
    /\ last.arg.form = F_night
    /\ Len(reports) = 2
    /\ reports[1].id = 1
    /\ reports[1].arbeitszeit_von = S_2200
    /\ reports[1].created_at < reports[2].created_at
    /\ reports[2].arbeitszeit_von # S_2200

====
